---------------------------- MODULE Spec2Model ----------------------------
(***************************************************************************)
(* HQM momentum scanner: the scoring / filtering / sizing pipeline of      *)
(* run_hqm_scan_from_db (src/database.py) over the stocks table.           *)
(*                                                                         *)
(* Numbers: the program computes in IEEE doubles; the model computes the   *)
(* same expressions in exact rationals [num, den] (lowest terms, den > 0). *)
(* Returns are kept in units of 0.01 (a stored 0.05 is the integer 5):     *)
(* only their order is read.  A missing value (None / NaN) is NaN.         *)
(***************************************************************************)
EXTENDS Integers, Sequences, FiniteSets, TLC

VARIABLES stocks, scans, frame, result, app_state, requests

vars == <<stocks, scans, frame, result, app_state, requests>>

---------------------------------------------------------------------------
(* Exact arithmetic *)

Abs(x) == IF x < 0 THEN -x ELSE x

RECURSIVE GCD(_, _)
GCD(a, b) == IF b = 0 THEN a ELSE GCD(b, a % b)

Rat(n, d) ==
    LET g == GCD(Abs(n), d)
    IN  [num |-> n \div g, den |-> d \div g]

RatInt(k) == [num |-> k, den |-> 1]
RatAdd(a, b) == Rat(a.num * b.den + b.num * a.den, a.den * b.den)
RatSub(a, b) == Rat(a.num * b.den - b.num * a.den, a.den * b.den)
RatMul(a, b) == Rat(a.num * b.num, a.den * b.den)
\* a / b for b > 0
RatDiv(a, b) == Rat(a.num * b.den, a.den * b.num)
RatLeq(a, b) == a.num * b.den <= b.num * a.den
RatLt(a, b) == a.num * b.den < b.num * a.den
RatFloor(a) == a.num \div a.den

\* rounding that cuts the extra decimals off
RatRound_down(a, scale) == Rat((a.num * scale) \div a.den, scale)

\* round(x, digits) for digits = 1, 2 (scale = 10, 100): nearest, ties to even
RatRound(a, scale) ==
    LET s == a.num * scale
        q == s \div a.den
        r == s % a.den
        up == \/ 2 * r > a.den
              \/ 2 * r = a.den /\ q % 2 = 1
    IN  Rat(IF up THEN q + 1 ELSE q, scale)

NaN == [isna |-> TRUE]
Some(x) == [isna |-> FALSE, val |-> x]

\* the sum of s[lo..hi], by halves to keep the recursion shallow
RECURSIVE SumRange(_, _, _)
SumRange(s, lo, hi) ==
    IF lo > hi THEN RatInt(0)
    ELSE IF lo = hi THEN s[lo]
    ELSE LET mid == (lo + hi) \div 2
         IN  RatAdd(SumRange(s, lo, mid), SumRange(s, mid + 1, hi))

SeqSum(s) == SumRange(s, 1, Len(s))

RECURSIVE SeqMin(_)
SeqMin(s) ==
    IF Len(s) = 1 THEN s[1]
    ELSE LET m == SeqMin(Tail(s)) IN IF RatLeq(s[1], m) THEN s[1] ELSE m

\* head taking one row too many
HeadN_more(s, k) == SubSeq(s, 1, IF k + 1 < Len(s) THEN k + 1 ELSE Len(s))

\* df.head(k)
HeadN(s, k) == SubSeq(s, 1, IF k < Len(s) THEN k ELSE Len(s))

Range(s) == {s[i] : i \in DOMAIN s}

---------------------------------------------------------------------------
(* Bounds and the modelled world *)

\* most rows in the stocks table
MaxStocks == 4
\* num_positions is drawn from 0..MaxPositions (0: a value the function
\* itself does not refuse)
MaxPositions == 2

\* tickers in the order fetch_and_store_data inserted them (row i holds
\* TickerNames[i]); the order is not the alphabetical one
TickerNames == <<"D", "B", "C", "A", "E", "F">>

\* the stored price of each ticker, USD; A is the price = 0 edge
PriceOf(t) ==
    CASE t = "D" -> Rat(1050, 100)
      [] t = "B" -> RatInt(30)
      [] t = "C" -> RatInt(7)
      [] t = "A" -> RatInt(0)
      [] t = "E" -> RatInt(250)
      [] OTHER   -> RatInt(1200)

\* the four returns (1M, 3M, 6M, 1Y) a row may hold, in units of 0.01
ReturnProfiles ==
    { <<2, 2, 2, 2>>, <<5, 5, 5, 5>>, <<15, 2, 8, 8>>, <<2, 15, 8, 8>> }

\* portfolio_size, USD: a whole amount and one with a fraction of a cent
PortfolioSizes == {RatInt(1000), Rat(1000004, 1000)}

\* max_sma10_distance: None, or a threshold in percent
MaxSma10Choices == {NaN, Some(RatInt(10))}

Closes(s) == [i \in DOMAIN s |-> Some(RatInt(s[i]))]

\* what Yahoo holds for a ticker over the last month: no column at all
\* (YahooHas false), or a Close column aligned on the batch's dates
YahooHas(t) == t # "D"

YahooClose(t) ==
    CASE t = "B" -> Closes(<<100, 100, 100, 100, 100, 100, 100, 100, 100, 120>>)
      [] t = "C" -> <<NaN>> \o Closes(<<50, 50, 50, 50, 50, 50, 50, 50, 80>>)
      [] t = "A" -> Closes(<<100, 100, 100, 100, 100, 100, 100, 100, 90, 110>>)
      [] t = "E" -> Closes(<<40, 100, 100, 100, 100, 100, 100, 100, 100, 100, 100>>)
      [] OTHER   -> Closes(<<100, 100, 100, 100, 100, 100, 100, 100, 100, 50>>)

\* yf.download for one batch: a frame, an empty frame, or an exception
DownloadOutcomes == {"data", "empty", "error"}

---------------------------------------------------------------------------
(* The stocks table *)

return_columns == <<"Return_1M", "Return_3M", "Return_6M", "Return_1Y">>
percentile_columns == <<"Pct_1M", "Pct_3M", "Pct_6M", "Pct_1Y">>

\* a row as fetch_and_store_data stores it: every return defined (rows with
\* a missing return are dropped before the insert)
StockRow(i, prof) ==
    [Ticker |-> TickerNames[i], Price |-> PriceOf(TickerNames[i]),
     Return_1M |-> prof[1], Return_3M |-> prof[2],
     Return_6M |-> prof[3], Return_1Y |-> prof[4]]

StockTables ==
    UNION { { [i \in 1..n |-> StockRow(i, f[i])] : f \in [1..n -> ReturnProfiles] }
            : n \in 0..MaxStocks }

Column(df, col) == [i \in DOMAIN df |-> df[i][col]]

---------------------------------------------------------------------------
(* Scoring *)

\* percentileofscore with kind='weak': the share of values at or below the
\* score
percentileofscore_weak(a, score) ==
    Rat(100 * Cardinality({i \in DOMAIN a : a[i] <= score}), Len(a))

\* scipy.stats.percentileofscore(a, score, kind='mean')
percentileofscore(a, score) ==
    LET n == Len(a)
        left == Cardinality({i \in DOMAIN a : a[i] < score})
        right == Cardinality({i \in DOMAIN a : a[i] <= score})
    IN  RatMul(RatInt(left + right), Rat(50, n))

\* one pass of the loop over zip(return_columns, percentile_columns), for
\* row i: its return against the column's valid_returns.  No stored return
\* is missing, so valid_returns is the whole column.
Pct(df, i, return_col) ==
    percentileofscore(Column(df, return_col), df[i][return_col])

\* the percentile columns of row i
PctColumns(df, i) ==
    [Pct_1M |-> Pct(df, i, "Return_1M"), Pct_3M |-> Pct(df, i, "Return_3M"),
     Pct_6M |-> Pct(df, i, "Return_6M"), Pct_1Y |-> Pct(df, i, "Return_1Y")]

\* the mean with the 1Y column left out
HQM_Score_short(pct) ==
    RatDiv(RatAdd(RatAdd(pct.Pct_1M, pct.Pct_3M), pct.Pct_6M), RatInt(3))

\* df[percentile_columns].mean(axis=1)
HQM_Score(pct) ==
    RatDiv(SeqSum([k \in DOMAIN percentile_columns |-> pct[percentile_columns[k]]]),
           RatInt(Len(percentile_columns)))

\* df[percentile_columns].min(axis=1)
Min_Percentile(pct) ==
    SeqMin([k \in DOMAIN percentile_columns |-> pct[percentile_columns[k]]])

ScoredRow(df, i) ==
    LET pct == PctColumns(df, i)
    IN  df[i] @@ pct @@
        [HQM_Score |-> HQM_Score(pct), Min_Percentile |-> Min_Percentile(pct)]

RECURSIVE ScoredRows(_, _)
ScoredRows(df, n) ==
    IF n = 0 THEN <<>> ELSE Append(ScoredRows(df, n - 1), ScoredRow(df, n))

\* df after the scoring block
Scored(df) == ScoredRows(df, Len(df))

---------------------------------------------------------------------------
(* Quality filter, ordering, candidate pool *)

QualityThreshold == 25

\* the filter with > 25 in place of >= 25
QualityKeep_strict(row) == RatLt(RatInt(QualityThreshold), row.Min_Percentile)

\* df[df['Min_Percentile'] >= 25]
QualityKeep(row) == RatLeq(RatInt(QualityThreshold), row.Min_Percentile)

QualityFilter(df) == SelectSeq(df, QualityKeep)

\* sort_values with ascending=True
RECURSIVE sort_values_ascending(_)
sort_values_ascending(rows) ==
    IF rows = {} THEN {<<>>}
    ELSE UNION { { <<x>> \o t : t \in sort_values_ascending(rows \ {x}) }
                 : x \in {y \in rows :
                            \A z \in rows : RatLeq(y.HQM_Score, z.HQM_Score)} }

\* df.sort_values('HQM_Score', ascending=False): the default kind is
\* quicksort, which pandas documents as not stable, so rows of equal
\* HQM_Score may come out in any order.  The set of possible results: every
\* arrangement of the rows (a set, the tickers being distinct) in which no
\* row precedes one of a higher score.
RECURSIVE sort_values(_)
sort_values(rows) ==
    IF rows = {} THEN {<<>>}
    ELSE UNION { { <<x>> \o t : t \in sort_values(rows \ {x}) }
                 : x \in {y \in rows :
                            \A z \in rows : RatLeq(z.HQM_Score, y.HQM_Score)} }

\* the multiplier without the filter's share
candidates_multiplier_flat(max_sma10_distance) == Rat(3, 2)

\* 3 if max_sma10_distance is not None else 1.5
candidates_multiplier(max_sma10_distance) ==
    IF ~max_sma10_distance.isna THEN RatInt(3) ELSE Rat(3, 2)

\* min(int(num_positions * candidates_multiplier), len(df))
candidates_count(num_positions, max_sma10_distance, n) ==
    LET want == RatFloor(RatMul(RatInt(num_positions),
                                candidates_multiplier(max_sma10_distance)))
    IN  IF want < n THEN want ELSE n

---------------------------------------------------------------------------
(* Distance to the 10-day moving average *)

batch_size == 50

NumBatches(tickers) == (Len(tickers) + batch_size - 1) \div batch_size

Batch(tickers, b) ==
    SubSeq(tickers, (b - 1) * batch_size + 1,
           IF b * batch_size < Len(tickers) THEN b * batch_size ELSE Len(tickers))

\* closes.dropna()
DropNa(closes) == SelectSeq(closes, LAMBDA c : ~c.isna)

\* closes.rolling(window=10).mean().iloc[-1]: the mean of the last 10
\* entries, NaN when there are fewer than 10 or one of them is NaN
Rolling10Last(closes) ==
    LET n == Len(closes)
        window == SubSeq(closes, n - 9, n)
    IN  IF n < 10 \/ \E i \in DOMAIN window : window[i].isna THEN NaN
        ELSE Some(RatDiv(SeqSum([i \in DOMAIN window |-> window[i].val]), RatInt(10)))

\* round(((current_price - sma10) / sma10) * 100, 2) when sma10 > 0
Distance(closes) ==
    LET sma10 == Rolling10Last(closes)
        current_price == closes[Len(closes)]
    IN  IF ~sma10.isna /\ RatLt(RatInt(0), sma10.val)
        THEN Some(RatRound(RatMul(RatDiv(RatSub(current_price.val, sma10.val),
                                         sma10.val), RatInt(100)), 100))
        ELSE NaN

\* the entry of results for one ticker of a batch whose download gave data
\* (NaN: no entry).  A batch of one reads the frame's Close column as it is
\* and counts the frame's rows; a larger batch drops the ticker's NaN rows
\* and counts what is left.
BatchEntry(batch, ticker) ==
    IF ~YahooHas(ticker) THEN NaN
    ELSE IF Len(batch) = 1
         THEN IF Len(YahooClose(ticker)) >= 10
              THEN Distance(YahooClose(ticker)) ELSE NaN
         ELSE LET closes == DropNa(YahooClose(ticker))
              IN  IF Len(closes) >= 10 THEN Distance(closes) ELSE NaN

\* get_sma10_distance(tickers): ticker -> distance, NaN for a ticker with no
\* entry in the returned dict.  dl[b] is the outcome of batch b's download;
\* an empty frame or an exception skips the whole batch.
get_sma10_distance(tickers, dl) ==
    [t \in Range(tickers) |->
        LET b == CHOOSE b \in 1..NumBatches(tickers) :
                     t \in Range(Batch(tickers, b))
        IN  IF dl[b] = "data" THEN BatchEntry(Batch(tickers, b), t) ELSE NaN]

\* the mask without its isna() term
Sma10Keep_closed(row, max_sma10_distance) ==
    /\ ~row.SMA10_Distance.isna
    /\ RatLeq(row.SMA10_Distance.val, max_sma10_distance.val)

\* the mask with < in place of <=
Sma10Keep_strict(row, max_sma10_distance) ==
    \/ row.SMA10_Distance.isna
    \/ RatLt(row.SMA10_Distance.val, max_sma10_distance.val)

\* the mask of the SMA10 filter:
\* SMA10_Distance.isna() | (SMA10_Distance <= max_sma10_distance)
Sma10Keep(row, max_sma10_distance) ==
    \/ row.SMA10_Distance.isna
    \/ RatLeq(row.SMA10_Distance.val, max_sma10_distance.val)

---------------------------------------------------------------------------
(* Position sizing and output rounding *)

\* portfolio_size / len(df), for len(df) > 0
allocation_per_stock(portfolio_size, n) == RatDiv(portfolio_size, RatInt(n))

\* the weight as a fraction of 1 instead of a percentage
Weight_fraction(n) == Rat(1, n)

\* 100 / len(df)
Weight(n) == Rat(100, n)

\* shares rounded up instead of down
Shares_up(allocation, price) ==
    IF RatLt(RatInt(0), price) THEN 0 - ((0 - allocation.num * price.den)
                                           \div (allocation.den * price.num))
    ELSE 0

\* shares rounded to the nearest whole number instead of down
Shares_nearest(allocation, price) ==
    IF RatLt(RatInt(0), price)
    THEN RatFloor(RatAdd(RatDiv(allocation, price), Rat(1, 2))) ELSE 0

\* math.floor(allocation_per_stock / price) if price > 0 else 0
Shares(allocation, price) ==
    IF RatLt(RatInt(0), price) THEN RatFloor(RatDiv(allocation, price)) ELSE 0

\* the sizing columns
Sized(df, portfolio_size) ==
    LET allocation == allocation_per_stock(portfolio_size, Len(df))
    IN  [i \in DOMAIN df |->
            LET shares == Shares(allocation, df[i].Price)
            IN  df[i] @@ [Allocation |-> allocation, Weight |-> Weight(Len(df)),
                          Shares |-> shares,
                          Value |-> RatMul(RatInt(shares), df[i].Price)]]

\* df['Value'].sum()
total_invested(df) == SeqSum(Column(df, "Value"))

\* the "Round values" block: percentiles and HQM_Score to 1 decimal, Weight
\* to 1, Value to 2 (the returns, kept here in whole units of 0.01, are
\* already at 4 decimals)
Rounded(df) ==
    [i \in DOMAIN df |->
        [c \in DOMAIN df[i] |->
            IF c \in Range(percentile_columns) \cup {"HQM_Score", "Weight"}
            THEN RatRound(df[i][c], 10)
            ELSE IF c = "Value" THEN RatRound(df[i][c], 100)
            ELSE df[i][c]]]

result_columns ==
    {"Ticker", "Price", "Return_1M", "Pct_1M", "Return_3M", "Pct_3M",
     "Return_6M", "Pct_6M", "Return_1Y", "Pct_1Y", "HQM_Score",
     "SMA10_Distance", "Shares", "Value", "Weight"}

\* df[[...]].to_dict('records')
Records(df) == [i \in DOMAIN df |-> [c \in result_columns |-> df[i][c]]]

---------------------------------------------------------------------------
(* run_hqm_scan_from_db *)

\* The local variables of one call on a non-empty table at its end, given
\* the scored frame, the quality survivors, how sort_values arranged them
\* (sorted) and how each download ended (dl).  "scored", "survivors",
\* "sorted", "pool", "kept" and "df" are the frame df / df_candidates after
\* lines 373, 377, 381, 395, 405 and 409;
\* the sizing values exist when the selection is not empty.
ScanLocals(scored, survivors, portfolio_size, num_positions, max_sma10_distance, sorted, dl) ==
    LET count == candidates_count(num_positions, max_sma10_distance, Len(sorted))
        head == HeadN(sorted, count)
        sma10_distances == get_sma10_distance(Column(head, "Ticker"), dl)
        pool == [i \in DOMAIN head |->
                    head[i] @@ [SMA10_Distance |-> sma10_distances[head[i].Ticker]]]
        enabled == ~max_sma10_distance.isna
        kept == IF enabled
                THEN SelectSeq(pool, LAMBDA r : Sma10Keep(r, max_sma10_distance))
                ELSE pool
        df == HeadN(kept, num_positions)
        sized == IF Len(df) = 0 THEN df ELSE Sized(df, portfolio_size)
        invested == total_invested(sized)
    IN  [reached |-> IF Len(df) = 0 THEN "sizing" ELSE "end",
         portfolio_size |-> portfolio_size,
         num_positions |-> num_positions,
         max_sma10_distance |-> max_sma10_distance,
         scored |-> scored,
         total_before_filter |-> Len(scored),
         survivors |-> survivors,
         filtered_out |-> Len(scored) - Len(survivors),
         sorted |-> sorted,
         candidates_count |-> count,
         pool |-> pool,
         kept |-> kept,
         filtered_by_sma10 |-> IF enabled THEN Len(pool) - Len(kept) ELSE 0,
         df |-> sized,
         total_invested |-> invested,
         sized |-> sized,
         cash_remaining |-> RatSub(portfolio_size, invested)]

\* the summary dict of a completed scan
Summary(table, L, scan_id) ==
    [total_scanned |-> Len(table),
     after_quality_filter |-> L.total_before_filter - L.filtered_out,
     filtered_out |-> L.filtered_out,
     filtered_by_sma10 |-> L.filtered_by_sma10,
     max_sma10_distance |-> L.max_sma10_distance,
     selected |-> Len(L.df),
     total_invested |-> RatRound(L.total_invested, 100),
     cash_remaining |-> RatRound(L.cash_remaining, 100),
     portfolio_size |-> L.portfolio_size,
     allocation_per_stock |-> RatRound(L.df[1].Allocation, 100),
     scan_id |-> scan_id]

\* the row INSERTed INTO scans
ScanRow(L) ==
    [portfolio_size |-> L.portfolio_size, num_positions |-> L.num_positions,
     total_invested |-> L.total_invested, cash_remaining |-> L.cash_remaining]

\* app_state as app.py creates it
AppStateInit ==
    [status |-> "idle", progress |-> 0, message |-> "", results |-> NaN,
     summary |-> NaN]

Init ==
    /\ stocks \in StockTables
    /\ scans = <<>>
    /\ frame = [reached |-> "none"]
    /\ result = [state |-> "none"]
    /\ app_state = AppStateInit
    /\ requests = <<>>

\* every way one call on a non-empty table can run: one per arrangement
\* sort_values may give and per outcome of the downloads
ScanRuns(table, portfolio_size, num_positions, max_sma10_distance) ==
    LET scored == Scored(table)
        survivors == QualityFilter(scored)
    IN  UNION { { ScanLocals(scored, survivors, portfolio_size, num_positions,
                             max_sma10_distance, sorted, dl)
                  : dl \in [1..NumBatches(HeadN(sorted,
                                candidates_count(num_positions, max_sma10_distance,
                                                 Len(sorted))))
                            -> DownloadOutcomes] }
                : sorted \in sort_values(Range(survivors)) }

\* one call run_hqm_scan_from_db(portfolio_size, num_positions,
\* max_sma10_distance=...) with save_scan left at True, from the first line
\* to the return or the exception that ends it
RunScan ==
    /\ result.state = "none"
    /\ \E portfolio_size \in PortfolioSizes, num_positions \in 0..MaxPositions,
          max_sma10_distance \in MaxSma10Choices :
        \/ /\ Len(stocks) = 0
           /\ frame' = [reached |-> "no_data", portfolio_size |-> portfolio_size,
                        num_positions |-> num_positions,
                        max_sma10_distance |-> max_sma10_distance]
           /\ result' = [state |-> "returned", success |-> FALSE,
                         error |-> "No data in database. Please refresh data first."]
           /\ UNCHANGED scans
        \/ /\ Len(stocks) > 0
           /\ \E L \in ScanRuns(stocks, portfolio_size, num_positions,
                                max_sma10_distance) :
                \/ /\ L.reached = "sizing"
                   \* portfolio_size / len(df) with len(df) = 0
                   /\ frame' = L
                   /\ result' = [state |-> "raised",
                                 exception |-> "ZeroDivisionError"]
                   /\ UNCHANGED scans
                \/ /\ L.reached = "end"
                   /\ frame' = [L EXCEPT !.df = Rounded(L.df)]
                   /\ scans' = Append(scans, ScanRow(L))
                   /\ result' = [state |-> "returned", success |-> TRUE,
                                 results |-> Records(Rounded(L.df)),
                                 summary |-> Summary(stocks, L, Len(scans) + 1)]
    /\ UNCHANGED <<stocks, app_state, requests>>

Next == RunScan

Spec == Init /\ [][Next]_vars

---------------------------------------------------------------------------
(* The sizing and rounding blocks on selections of every accepted length *)

\* the largest num_positions start_scan accepts
MaxNumPositions == 50

\* the price every row of a selection holds
SelectionPrices == {RatInt(0), RatInt(7), Rat(1050, 100)}

\* df after line 409: a selection of n rows, of which only the Price column
\* is read by what follows
SizerInit ==
    /\ stocks = <<>>
    /\ scans = <<>>
    /\ result = [state |-> "none"]
    /\ app_state = AppStateInit
    /\ requests = <<>>
    /\ \E n \in 1..MaxNumPositions, portfolio_size \in PortfolioSizes,
          price \in SelectionPrices :
          frame = [reached |-> "selected", portfolio_size |-> portfolio_size,
                   df |-> [i \in 1..n |-> [Price |-> price]]]

\* lines 411-422 and 435-441 on that selection
SizePositions ==
    /\ frame.reached = "selected"
    /\ frame' = [frame EXCEPT !.reached = "rounded",
                              !.df = Rounded(Sized(frame.df, frame.portfolio_size))]
    /\ UNCHANGED <<stocks, scans, result, app_state, requests>>

SizerNext == SizePositions

SizerSpec == SizerInit /\ [][SizerNext]_vars

---------------------------------------------------------------------------
(* The Flask application (src/app.py): request handlers and the background *)
(* threads they start, every step that takes state_lock being one action   *)

\* most POST requests admitted
MaxRequests == 2

\* the stocks tables the application may start with or a refresh may store:
\* no row (every fetched row lacked a return), a table of which only B
\* passes the quality filter (B is more than 10 percent above its average,
\* so a scan of it gives a result or an empty selection by the threshold
\* asked for), and a table whose rows all fail the quality filter
Snapshots ==
    { <<>>,
      [i \in 1..3 |-> StockRow(i, << <<2, 15, 8, 8>>, <<5, 5, 9, 9>>,
                                     <<15, 2, 8, 8>> >>[i])],
      [i \in 1..3 |-> StockRow(i, << <<2, 15, 8, 8>>, <<5, 5, 5, 5>>,
                                     <<15, 2, 8, 8>> >>[i])] }

\* the JSON bodies of POST /api/scan, after float() and int()
ScanBodies ==
    { [portfolio_size |-> RatInt(1000), num_positions |-> 1,
       max_sma10_distance |-> NaN],
      [portfolio_size |-> RatInt(1000), num_positions |-> 1,
       max_sma10_distance |-> Some(RatInt(10))],
      [portfolio_size |-> RatInt(999), num_positions |-> 1,
       max_sma10_distance |-> NaN],
      [portfolio_size |-> RatInt(1000), num_positions |-> 0,
       max_sma10_distance |-> NaN],
      [portfolio_size |-> RatInt(1000), num_positions |-> 51,
       max_sma10_distance |-> NaN] }

\* update_state(status, progress, message, results, summary): an argument
\* left at None (NaN) keeps the field
update_state(st, status, progress, message, results, summary) ==
    [status |-> IF status.isna THEN st.status ELSE status.val,
     progress |-> IF progress.isna THEN st.progress ELSE progress.val,
     message |-> IF message.isna THEN st.message ELSE message.val,
     results |-> IF results.isna THEN st.results ELSE results,
     summary |-> IF summary.isna THEN st.summary ELSE summary]

\* app_state['status'] in ['refreshing', 'scanning']
Busy == app_state.status \in {"refreshing", "scanning"}

\* a request as it enters its handler; pc is the next step of the handler
\* or, once it is started, of the background thread
NewRequest(route, body) ==
    [route |-> route, body |-> body,
     pc |-> IF route = "scan" THEN "count" ELSE "check",
     response |-> NaN, step |-> 0, ret |-> NaN]

\* jsonify({'success': False, 'error': ...})
Refused(r, error) ==
    [r EXCEPT !.pc = "rejected",
              !.response = Some([success |-> FALSE, error |-> error])]

\* thread.start() and jsonify({'success': True, 'message': ...})
Started(r, pc, message) ==
    [r EXCEPT !.pc = pc,
              !.response = Some([success |-> TRUE, message |-> message])]

\* the pcs of a started background thread that has not made its last
\* update_state
ThreadPcs == {"fetch", "store", "refresh_finish", "progress", "run", "scan_finish"}

\* the update_progress calls of fetch_and_store_data before it stores
ProgressCalls ==
    << [pct |-> 5, msg |-> "Connecting to FinViz..."],
       [pct |-> 10, msg |-> "Fetching NYSE data..."],
       [pct |-> 20, msg |-> "Fetching NYSE performance..."],
       [pct |-> 45, msg |-> "Fetching NASDAQ data..."],
       [pct |-> 55, msg |-> "Fetching NASDAQ performance..."],
       [pct |-> 80, msg |-> "Storing data in database..."] >>

\* f"Refreshed {stats['total_stored']} stocks in ...s", without the duration
RefreshedMessage(n) ==
    CASE n = 0 -> "Refreshed 0 stocks"
      [] n = 1 -> "Refreshed 1 stocks"
      [] n = 2 -> "Refreshed 2 stocks"
      [] OTHER -> "Refreshed 3 stocks"

AppInit ==
    /\ stocks \in Snapshots
    /\ scans = <<>>
    /\ frame = [reached |-> "none"]
    /\ result = [state |-> "none"]
    /\ app_state = AppStateInit
    /\ requests = <<>>

\* POST /api/refresh arrives
PostRefresh ==
    /\ Len(requests) < MaxRequests
    /\ requests' = Append(requests, NewRequest("refresh", NaN))
    /\ UNCHANGED <<stocks, scans, frame, result, app_state>>

\* POST /api/scan arrives
PostScan ==
    /\ Len(requests) < MaxRequests
    /\ \E body \in ScanBodies :
          requests' = Append(requests, NewRequest("scan", body))
    /\ UNCHANGED <<stocks, scans, frame, result, app_state>>

\* start_refresh, lines 73-75: the status test under state_lock
RefreshCheck(i) ==
    /\ requests[i].pc = "check"
    /\ requests[i].route = "refresh"
    /\ requests' = [requests EXCEPT ![i] =
            IF Busy THEN Refused(@, "Operation already in progress")
            ELSE [@ EXCEPT !.pc = "set"]]
    /\ UNCHANGED <<stocks, scans, frame, result, app_state>>

\* start_refresh, line 77
RefreshSet(i) ==
    /\ requests[i].pc = "set"
    /\ requests[i].route = "refresh"
    /\ app_state' = update_state(app_state, Some("refreshing"), Some(0),
                                 Some("Starting data refresh..."), NaN, NaN)
    /\ requests' = [requests EXCEPT ![i].pc = "start"]
    /\ UNCHANGED <<stocks, scans, frame, result>>

\* start_refresh, lines 94-97
RefreshStart(i) ==
    /\ requests[i].pc = "start"
    /\ requests[i].route = "refresh"
    /\ requests' = [requests EXCEPT ![i] = Started(@, "fetch", "Refresh started")]
    /\ UNCHANGED <<stocks, scans, frame, result, app_state>>

\* refresh_thread in fetch_and_store_data before the store: the next
\* progress_callback, or an exception out of a FinViz fetch
RefreshFetch(i) ==
    /\ requests[i].pc = "fetch"
    /\ \/ /\ LET call == ProgressCalls[requests[i].step + 1]
             IN  app_state' = update_state(app_state, NaN, Some(call.pct),
                                           Some(call.msg), NaN, NaN)
          /\ requests' = [requests EXCEPT
                ![i].step = @ + 1,
                ![i].pc = IF requests[i].step + 1 = Len(ProgressCalls)
                          THEN "store" ELSE "fetch"]
       \/ /\ requests[i].step \in 2..5
          /\ requests' = [requests EXCEPT
                ![i].pc = "refresh_finish",
                ![i].ret = [state |-> "raised", exception |-> "FinViz error"]]
          /\ UNCHANGED app_state
    /\ UNCHANGED <<stocks, scans, frame, result>>

\* fetch_and_store_data, lines 223-256: DELETE FROM stocks, the INSERTs, the
\* commit and update_progress(100, ...)
RefreshStore(i) ==
    /\ requests[i].pc = "store"
    /\ \E table \in Snapshots :
        /\ stocks' = table
        /\ requests' = [requests EXCEPT
              ![i].pc = "refresh_finish",
              ![i].ret = [state |-> "returned", total_stored |-> Len(table)]]
    /\ app_state' = update_state(app_state, NaN, Some(100),
                                 Some("Data refresh complete!"), NaN, NaN)
    /\ UNCHANGED <<scans, frame, result>>

\* refresh_thread, lines 86-92: the last update_state of the thread
RefreshFinish(i) ==
    /\ requests[i].pc = "refresh_finish"
    /\ app_state' =
          IF requests[i].ret.state = "returned"
          THEN update_state(app_state, Some("completed"), Some(100),
                            Some(RefreshedMessage(requests[i].ret.total_stored)),
                            NaN, NaN)
          ELSE update_state(app_state, Some("error"), NaN,
                            Some(requests[i].ret.exception), NaN, NaN)
    /\ requests' = [requests EXCEPT ![i].pc = "done"]
    /\ UNCHANGED <<stocks, scans, frame, result>>

\* start_scan, lines 104-108: get_stock_count() == 0
ScanCount(i) ==
    /\ requests[i].pc = "count"
    /\ requests' = [requests EXCEPT ![i] =
            IF Len(stocks) = 0
            THEN Refused(@, "No data available. Please refresh data first.")
            ELSE [@ EXCEPT !.pc = "check"]]
    /\ UNCHANGED <<stocks, scans, frame, result, app_state>>

\* start_scan with update_state(status='scanning') placed before the
\* validation instead of after it
ScanCheck_late(i) ==
    /\ requests[i].pc = "check"
    /\ requests[i].route = "scan"
    /\ requests' = [requests EXCEPT ![i] =
            IF Busy THEN Refused(@, "Operation already in progress")
            ELSE IF RatLt(@.body.portfolio_size, RatInt(1000))
            THEN Refused(@, "Portfolio size must be at least $1,000")
            ELSE IF @.body.num_positions < 1 \/ @.body.num_positions > MaxNumPositions
            THEN Refused(@, "Number of positions must be between 1 and 50")
            ELSE [@ EXCEPT !.pc = "start"]]
    /\ app_state' = IF Busy THEN app_state
                    ELSE update_state(app_state, Some("scanning"), Some(0),
                                      Some("Running HQM scan..."), NaN, NaN)
    /\ UNCHANGED <<stocks, scans, frame, result>>

\* start_scan, lines 110-131: the status test under state_lock, then the
\* validation of the body (which reads nothing shared)
ScanCheck(i) ==
    /\ requests[i].pc = "check"
    /\ requests[i].route = "scan"
    /\ requests' = [requests EXCEPT ![i] =
            IF Busy THEN Refused(@, "Operation already in progress")
            ELSE IF RatLt(@.body.portfolio_size, RatInt(1000))
            THEN Refused(@, "Portfolio size must be at least $1,000")
            ELSE IF @.body.num_positions < 1 \/ @.body.num_positions > MaxNumPositions
            THEN Refused(@, "Number of positions must be between 1 and 50")
            ELSE [@ EXCEPT !.pc = "set"]]
    /\ UNCHANGED <<stocks, scans, frame, result, app_state>>

\* start_scan, line 133
ScanSet(i) ==
    /\ requests[i].pc = "set"
    /\ requests[i].route = "scan"
    /\ app_state' = update_state(app_state, Some("scanning"), Some(0),
                                 Some("Running HQM scan..."), NaN, NaN)
    /\ requests' = [requests EXCEPT ![i].pc = "start"]
    /\ UNCHANGED <<stocks, scans, frame, result>>

\* start_scan, lines 155-158
ScanStart(i) ==
    /\ requests[i].pc = "start"
    /\ requests[i].route = "scan"
    /\ requests' = [requests EXCEPT ![i] = Started(@, "progress", "Scan started")]
    /\ UNCHANGED <<stocks, scans, frame, result, app_state>>

\* scan_thread, line 137
ScanProgress(i) ==
    /\ requests[i].pc = "progress"
    /\ app_state' = update_state(app_state, NaN, Some(30),
                                 Some("Calculating HQM scores..."), NaN, NaN)
    /\ requests' = [requests EXCEPT ![i].pc = "run"]
    /\ UNCHANGED <<stocks, scans, frame, result>>

\* every way run_hqm_scan_from_db can run for a request body on a stored
\* table: ScanRuns, tabulated once
ScanRunsTable ==
    { <<table, body, ScanRuns(table, body.portfolio_size, body.num_positions,
                              body.max_sma10_distance)>>
      : table \in Snapshots \ {<<>>}, body \in ScanBodies }

ScanRunsOf(table, body) ==
    (CHOOSE row \in ScanRunsTable : row[1] = table /\ row[2] = body)[3]

\* scan_thread, line 139: the call of run_hqm_scan_from_db, as RunScan
ScanRun(i) ==
    /\ requests[i].pc = "run"
    /\ LET body == requests[i].body
       IN  \/ /\ Len(stocks) = 0
              /\ requests' = [requests EXCEPT
                    ![i].pc = "scan_finish",
                    ![i].ret = [state |-> "returned", success |-> FALSE,
                                error |-> "No data in database. Please refresh data first."]]
              /\ UNCHANGED scans
           \/ /\ Len(stocks) > 0
              /\ \E L \in ScanRunsOf(stocks, body) :
                   \/ /\ L.reached = "sizing"
                      /\ requests' = [requests EXCEPT
                            ![i].pc = "scan_finish",
                            ![i].ret = [state |-> "raised",
                                        exception |-> "float division by zero"]]
                      /\ UNCHANGED scans
                   \/ /\ L.reached = "end"
                      /\ scans' = Append(scans, ScanRow(L))
                      /\ requests' = [requests EXCEPT
                            ![i].pc = "scan_finish",
                            ![i].ret = [state |-> "returned", success |-> TRUE,
                                        results |-> Records(Rounded(L.df)),
                                        summary |-> Summary(stocks, L, Len(scans) + 1)]]
    /\ UNCHANGED <<stocks, frame, result, app_state>>

\* scan_thread without its except clause: an exception ends the thread
\* before any update_state
ScanFinish_uncaught(i) ==
    /\ requests[i].pc = "scan_finish"
    /\ LET ret == requests[i].ret
       IN  app_state' =
             IF ret.state = "raised" THEN app_state
             ELSE IF ret.success
             THEN update_state(app_state, Some("completed"), Some(100),
                               Some("Scan complete!"), Some(ret.results),
                               Some(ret.summary))
             ELSE update_state(app_state, Some("error"), NaN, Some(ret.error),
                               NaN, NaN)
    /\ requests' = [requests EXCEPT ![i].pc = "done"]
    /\ UNCHANGED <<stocks, scans, frame, result>>

\* scan_thread, lines 141-153: the last update_state of the thread
ScanFinish(i) ==
    /\ requests[i].pc = "scan_finish"
    /\ LET ret == requests[i].ret
       IN  app_state' =
             IF ret.state = "raised"
             THEN update_state(app_state, Some("error"), NaN, Some(ret.exception),
                               NaN, NaN)
             ELSE IF ret.success
             THEN update_state(app_state, Some("completed"), Some(100),
                               Some("Scan complete!"), Some(ret.results),
                               Some(ret.summary))
             ELSE update_state(app_state, Some("error"), NaN, Some(ret.error),
                               NaN, NaN)
    /\ requests' = [requests EXCEPT ![i].pc = "done"]
    /\ UNCHANGED <<stocks, scans, frame, result>>

\* GET /api/results, lines 168-178: the response under state_lock
get_results ==
    IF app_state.results.isna
    THEN [success |-> FALSE, error |-> "No results available"]
    ELSE [success |-> TRUE, results |-> app_state.results.val,
          summary |-> app_state.summary.val]

\* a step of the handler of request i
HandlerStep(i) ==
    \/ RefreshCheck(i) \/ RefreshSet(i) \/ RefreshStart(i)
    \/ ScanCount(i) \/ ScanCheck(i) \/ ScanSet(i) \/ ScanStart(i)

\* a step of the background thread request i started
ThreadStep(i) ==
    \/ RefreshFetch(i) \/ RefreshStore(i) \/ RefreshFinish(i)
    \/ ScanProgress(i) \/ ScanRun(i) \/ ScanFinish(i)

AppNext ==
    \/ PostRefresh
    \/ PostScan
    \/ \E i \in DOMAIN requests : HandlerStep(i)
    \/ \E i \in DOMAIN requests : ThreadStep(i)

\* handlers and threads are scheduled: a step that stays possible is taken
AppSpec ==
    /\ AppInit
    /\ [][AppNext]_vars
    /\ WF_vars(\E i \in DOMAIN requests : HandlerStep(i) \/ ThreadStep(i))

---------------------------------------------------------------------------
(* Properties of a scan *)

\* the call got past the empty-table check, so every stage up to the final
\* selection has run
Ran == frame.reached \in {"sizing", "end"}

\* the call returned a result
Completed == frame.reached = "end"

\* the SMA10 filter was asked for
Enabled == ~frame.max_sma10_distance.isna

TickersOf(df) == {df[i].Ticker : i \in DOMAIN df}

NonIncreasing(df) ==
    \A i \in DOMAIN df : \A j \in DOMAIN df :
        i < j => RatLeq(df[j].HQM_Score, df[i].HQM_Score)

\* C1: every percentile of the scored frame is
\* 100 * (#returns < x + #returns <= x) / (2n) over its column of the stocks
\* table; in a column of n distinct values the k-th smallest gets
\* 100 * (2k - 1) / (2n); equal returns get equal percentiles; and the
\* returns 0.02, 0.05, 0.08, 0.10, 0.15 get 10, 30, 50, 70, 90.
C1_MeanRankPercentile ==
    /\ Ran =>
        /\ Len(frame.scored) = Len(stocks)
        /\ \A i \in DOMAIN stocks : \A k \in DOMAIN return_columns :
            LET col == return_columns[k]
                pct == percentile_columns[k]
                x == stocks[i][col]
                n == Len(stocks)
                lt == Cardinality({j \in DOMAIN stocks : stocks[j][col] < x})
                le == Cardinality({j \in DOMAIN stocks : stocks[j][col] <= x})
            IN  /\ frame.scored[i].Ticker = stocks[i].Ticker
                /\ frame.scored[i][pct] = Rat(100 * (lt + le), 2 * n)
                /\ (\A a, b \in DOMAIN stocks : a # b => stocks[a][col] # stocks[b][col])
                      => frame.scored[i][pct] = Rat(100 * (2 * le - 1), 2 * n)
                /\ \A j \in DOMAIN stocks :
                      stocks[j][col] = x => frame.scored[j][pct] = frame.scored[i][pct]
    /\ LET a == <<2, 5, 8, 10, 15>>
       IN  \A k \in DOMAIN a : percentileofscore(a, a[k]) = RatInt(20 * k - 10)

\* a scan of three or more stocks whose 1M column holds both a tie and two
\* different returns
C1_Witness ==
    /\ Ran
    /\ Len(stocks) >= 3
    /\ \E i, j, k \in DOMAIN stocks :
        /\ i # j
        /\ stocks[i].Return_1M = stocks[j].Return_1M
        /\ stocks[i].Return_1M < stocks[k].Return_1M
        /\ RatLt(frame.scored[i].Pct_1M, frame.scored[k].Pct_1M)

\* C2: for every scored ticker HQM_Score is the sum of its four percentiles
\* divided by four, Min_Percentile is the least of the four, and
\* 0 <= Min_Percentile <= HQM_Score <= 100.
C2_CompositeScore ==
    Ran =>
        \A i \in DOMAIN frame.scored :
            LET r == frame.scored[i]
                pcts == {r[percentile_columns[k]] : k \in DOMAIN percentile_columns}
            IN  /\ RatMul(RatInt(4), r.HQM_Score)
                     = RatAdd(RatAdd(r.Pct_1M, r.Pct_3M), RatAdd(r.Pct_6M, r.Pct_1Y))
                /\ r.Min_Percentile \in pcts
                /\ \A p \in pcts : RatLeq(r.Min_Percentile, p)
                /\ RatLeq(RatInt(0), r.Min_Percentile)
                /\ RatLeq(r.Min_Percentile, r.HQM_Score)
                /\ RatLeq(r.HQM_Score, RatInt(100))

\* a scored ticker whose percentiles differ, so that its minimum lies
\* strictly below its mean
C2_Witness ==
    /\ Ran
    /\ \E i \in DOMAIN frame.scored :
        /\ RatLt(frame.scored[i].Min_Percentile, frame.scored[i].HQM_Score)
        /\ RatLt(RatInt(50), frame.scored[i].HQM_Score)

\* C3: the survivors are exactly the scored tickers with
\* Min_Percentile >= 25, in the scored order, and filtered_out (also as the
\* summary reports it) is the number of scored tickers dropped.
C3_QualityFilter ==
    /\ Ran =>
        /\ \A i \in DOMAIN frame.scored :
              (frame.scored[i] \in Range(frame.survivors))
                 <=> ~RatLt(frame.scored[i].Min_Percentile, RatInt(25))
        /\ Range(frame.survivors) \subseteq Range(frame.scored)
        /\ Len(frame.survivors) = Cardinality(Range(frame.survivors))
        /\ frame.filtered_out =
              Cardinality({i \in DOMAIN frame.scored :
                             RatLt(frame.scored[i].Min_Percentile, RatInt(25))})
    /\ Completed =>
        /\ result.summary.filtered_out = frame.filtered_out
        /\ result.summary.after_quality_filter = Len(frame.survivors)

\* a scan in which the filter drops a ticker and keeps one whose worst
\* percentile is exactly 25
C3_Witness ==
    /\ Ran
    /\ frame.filtered_out > 0
    /\ \E i \in DOMAIN frame.survivors :
          frame.survivors[i].Min_Percentile = RatInt(25)

\* C4: with the SMA10 filter on, a pool candidate whose distance is
\* undefined is never removed by it, whatever the lookup did; a candidate
\* Yahoo has no column for, or fewer than 10 valid closes for, has an
\* undefined distance; and a scan with such a candidate returns a result.
C4_TrendFilterFailOpen ==
    (Ran /\ Enabled) =>
        \A i \in DOMAIN frame.pool :
            LET r == frame.pool[i]
            IN  /\ (~YahooHas(r.Ticker) \/ Len(DropNa(YahooClose(r.Ticker))) < 10)
                      => r.SMA10_Distance.isna
                /\ r.SMA10_Distance.isna =>
                      /\ r \in Range(frame.kept)
                      /\ result.state = "returned"
                      /\ result.success

\* a filtered scan that keeps a candidate of undefined distance while it
\* removes another one
C4_Witness ==
    /\ Ran /\ Enabled
    /\ frame.filtered_by_sma10 > 0
    /\ \E i \in DOMAIN frame.kept : frame.kept[i].SMA10_Distance.isna

\* C5: with the SMA10 filter on, a pool candidate with a defined distance
\* above max_sma10_distance is removed and is in no returned position, one
\* with a defined distance at or below it passes, the kept candidates stay in
\* pool order, and filtered_by_sma10 (also as the summary reports it) is the
\* number removed.
C5_TrendFilterThreshold ==
    (Ran /\ Enabled) =>
        /\ \A i \in DOMAIN frame.pool :
            LET r == frame.pool[i]
                limit == frame.max_sma10_distance.val
            IN  ~r.SMA10_Distance.isna =>
                   /\ RatLt(limit, r.SMA10_Distance.val) =>
                         /\ r \notin Range(frame.kept)
                         /\ r.Ticker \notin TickersOf(frame.df)
                   /\ ~RatLt(limit, r.SMA10_Distance.val) => r \in Range(frame.kept)
        /\ frame.kept = SelectSeq(frame.pool, LAMBDA r : r \in Range(frame.kept))
        /\ frame.filtered_by_sma10 =
              Cardinality({i \in DOMAIN frame.pool :
                  /\ ~frame.pool[i].SMA10_Distance.isna
                  /\ RatLt(frame.max_sma10_distance.val,
                           frame.pool[i].SMA10_Distance.val)})
        /\ Completed => result.summary.filtered_by_sma10 = frame.filtered_by_sma10

\* a filtered scan that removes a candidate above the limit and passes one
\* that sits exactly on it
C5_Witness ==
    /\ Ran /\ Enabled
    /\ frame.filtered_by_sma10 > 0
    /\ \E i \in DOMAIN frame.kept :
        /\ ~frame.kept[i].SMA10_Distance.isna
        /\ frame.kept[i].SMA10_Distance.val = frame.max_sma10_distance.val

\* C6: the pool holds min(floor(num_positions * m), #survivors) candidates,
\* m being 3 with the SMA10 filter on and 1.5 with it off; they are
\* survivors, and no survivor left out of the pool has a higher HQM_Score
\* than one in it.
C6_CandidatePool ==
    Ran =>
        LET want == IF Enabled THEN 3 * frame.num_positions
                    ELSE (3 * frame.num_positions) \div 2
            n == Len(frame.survivors)
        IN  /\ Len(frame.pool) = IF want < n THEN want ELSE n
            /\ Cardinality(TickersOf(frame.pool)) = Len(frame.pool)
            /\ TickersOf(frame.pool) \subseteq TickersOf(frame.survivors)
            /\ \A i \in DOMAIN frame.pool : \A j \in DOMAIN frame.survivors :
                  frame.survivors[j].Ticker \notin TickersOf(frame.pool)
                     => RatLeq(frame.survivors[j].HQM_Score, frame.pool[i].HQM_Score)

\* a scan with the filter on whose pool leaves a survivor out
C6_Witness ==
    /\ Ran /\ Enabled
    /\ Len(frame.pool) = 3 * frame.num_positions
    /\ Len(frame.pool) < Len(frame.survivors)

\* C7: the candidate pool, the filtered pool, the selection and the returned
\* positions are each in non-increasing HQM_Score order.
C7_ScoreOrder ==
    /\ Ran =>
        /\ NonIncreasing(frame.pool)
        /\ NonIncreasing(frame.kept)
        /\ NonIncreasing(frame.df)
    /\ Completed => NonIncreasing(result.results)

\* a returned selection of two or more positions with a strict drop in score
C7_Witness ==
    /\ Completed
    /\ Len(frame.pool) >= 3
    /\ \E i, j \in DOMAIN result.results :
          i < j /\ RatLt(result.results[j].HQM_Score, result.results[i].HQM_Score)

\* C8: survivors of equal HQM_Score are ordered by one fixed rule: each tied
\* pair stands in the order of the stocks table, or each tied pair stands in
\* alphabetical ticker order.
C8_StableTieBreak ==
    Ran =>
        LET alphabet == <<"A", "B", "C", "D", "E", "F">>
            rank(t) == CHOOSE k \in DOMAIN alphabet : alphabet[k] = t
            position(t) == CHOOSE k \in DOMAIN stocks : stocks[k].Ticker = t
            tied == {p \in (DOMAIN frame.sorted) \X (DOMAIN frame.sorted) :
                        /\ p[1] < p[2]
                        /\ frame.sorted[p[1]].HQM_Score = frame.sorted[p[2]].HQM_Score}
        IN  \/ \A p \in tied : position(frame.sorted[p[1]].Ticker)
                                  < position(frame.sorted[p[2]].Ticker)
            \/ \A p \in tied : rank(frame.sorted[p[1]].Ticker)
                                  < rank(frame.sorted[p[2]].Ticker)

\* C9: the selection is the first min(num_positions, #filtered pool)
\* candidates of the filtered pool, in its order, so it never exceeds
\* num_positions and never passes over a filtered candidate for a later one.
C9_FinalSelection ==
    /\ Ran =>
        LET n == IF frame.num_positions < Len(frame.kept)
                 THEN frame.num_positions ELSE Len(frame.kept)
        IN  /\ Len(frame.df) = n
            /\ Len(frame.df) <= frame.num_positions
            /\ \A i \in 1..n : frame.df[i].Ticker = frame.kept[i].Ticker
    /\ Completed =>
        /\ Len(result.results) = Len(frame.df)
        /\ \A i \in DOMAIN frame.df : result.results[i].Ticker = frame.kept[i].Ticker
        /\ result.summary.selected = Len(frame.df)

\* a returned scan whose filter removed a candidate and still left more than
\* num_positions of them
C9_Witness ==
    /\ Completed
    /\ frame.filtered_by_sma10 > 0
    /\ Len(frame.kept) > frame.num_positions

\* C10: with max_sma10_distance absent nothing is removed after the quality
\* filter: the selection is the first N = min(num_positions, #survivors) of
\* the ordered survivors, none of a lower HQM_Score than a survivor left out;
\* every position of positive price holds floor((portfolio_size / N) / price)
\* shares worth shares * price; and cash_remaining is portfolio_size minus
\* the sum of the positions' values.
C10_SelectionWithoutTrendFilter ==
    (Ran /\ ~Enabled) =>
        LET n == IF frame.num_positions < Len(frame.survivors)
                 THEN frame.num_positions ELSE Len(frame.survivors)
            ps == frame.portfolio_size
        IN  /\ frame.filtered_by_sma10 = 0
            /\ frame.kept = frame.pool
            /\ Len(frame.df) = n
            /\ \A i \in 1..n : frame.df[i].Ticker = frame.sorted[i].Ticker
            /\ \A i \in 1..n : \A j \in DOMAIN frame.sorted :
                  j > n => RatLeq(frame.sorted[j].HQM_Score, frame.sorted[i].HQM_Score)
            /\ Completed =>
                /\ \A i \in DOMAIN result.results :
                    LET r == result.results[i]
                    IN  /\ r.Price.num > 0 =>
                              r.Shares = (ps.num * r.Price.den)
                                            \div (ps.den * n * r.Price.num)
                        /\ r.Value = RatMul(RatInt(r.Shares), r.Price)
                /\ frame.cash_remaining =
                      RatSub(ps, SeqSum(Column(result.results, "Value")))
                /\ result.summary.cash_remaining = RatRound(frame.cash_remaining, 100)
                /\ result.summary.selected = n
                /\ result.summary.filtered_by_sma10 = 0

\* a returned unfiltered scan that picks two of three or more survivors and
\* buys shares
C10_Witness ==
    /\ Completed /\ ~Enabled
    /\ Len(result.results) = 2
    /\ Len(frame.survivors) > 2
    /\ \E i \in DOMAIN result.results : result.results[i].Shares > 0
    /\ RatLt(RatInt(0), frame.cash_remaining)

\* C11: in a scan that selected N > 0 candidates, every position has
\* Allocation = portfolio_size / N, Shares = floor(Allocation / Price) when
\* Price > 0 and 0 otherwise, Value = Shares * Price and Weight = 100 / N; a
\* candidate of price <= 0 is returned with 0 shares and 0 value and counts
\* in N.
C11_PositionSizer ==
    Completed =>
        LET N == Len(frame.sized)
            ps == frame.portfolio_size
        IN  /\ N > 0
            /\ N = Len(HeadN(frame.kept, frame.num_positions))
            /\ Len(result.results) = N
            /\ result.summary.selected = N
            /\ \A i \in DOMAIN frame.sized :
                LET r == frame.sized[i]
                    out == result.results[i]
                IN  /\ r.Ticker = frame.kept[i].Ticker
                    /\ r.Allocation = Rat(ps.num, ps.den * N)
                    /\ r.Price.num > 0 =>
                          r.Shares = (ps.num * r.Price.den)
                                        \div (ps.den * N * r.Price.num)
                    /\ r.Price.num <= 0 => r.Shares = 0 /\ r.Value = RatInt(0)
                    /\ r.Value = Rat(r.Shares * r.Price.num, r.Price.den)
                    /\ r.Weight = Rat(100, N)
                    /\ out.Ticker = r.Ticker
                    /\ out.Shares = r.Shares

\* a returned selection of two positions, one of price 0 and one that holds
\* shares
C11_Witness ==
    /\ Completed
    /\ Len(frame.sized) = 2
    /\ \E i, j \in DOMAIN result.results :
        /\ result.results[i].Price = RatInt(0)
        /\ result.results[i].Shares = 0
        /\ result.results[j].Shares > 0

\* C12: in every returned scan the summary's total_invested is the sum of
\* the returned positions' values and total_invested + cash_remaining is
\* exactly the summary's portfolio_size.
C12_SummaryIdentity ==
    (Completed /\ frame.num_positions >= 1) =>
        /\ result.summary.total_invested = SeqSum(Column(result.results, "Value"))
        /\ RatAdd(result.summary.total_invested, result.summary.cash_remaining)
              = result.summary.portfolio_size

\* C13: in every returned scan no position is worth more than
\* allocation_per_stock, total_invested is at most portfolio_size, and
\* cash_remaining (as computed and as the summary reports it) is >= 0.
C13_CashNotNegative ==
    Completed =>
        /\ \A i \in DOMAIN frame.sized :
              /\ RatLeq(RatInt(0), frame.sized[i].Value)
              /\ RatLeq(frame.sized[i].Value, frame.sized[i].Allocation)
        /\ frame.total_invested = SeqSum(Column(frame.sized, "Value"))
        /\ RatLeq(frame.total_invested, frame.portfolio_size)
        /\ RatLeq(RatInt(0), frame.cash_remaining)
        /\ RatLeq(RatInt(0), result.summary.cash_remaining)

\* a returned scan with a position worth less than its allocation, and cash
\* left over
C13_Witness ==
    /\ Completed
    /\ \E i \in DOMAIN frame.sized :
        /\ RatLt(RatInt(0), frame.sized[i].Value)
        /\ RatLt(frame.sized[i].Value, frame.sized[i].Allocation)
    /\ RatLt(RatInt(0), result.summary.cash_remaining)

\* C16: a call with num_positions >= 1 that finds the stocks table empty, or
\* no survivor of the quality filter, or an empty final selection, returns
\* an unsuccessful result carrying an error and writes no scan record.
C16_InsufficientDataError ==
    (/\ result.state # "none"
     /\ frame.num_positions >= 1
     /\ \/ Len(stocks) = 0
        \/ Ran /\ (Len(frame.survivors) = 0 \/ Len(frame.df) = 0))
    => /\ result.state = "returned"
       /\ ~result.success
       /\ scans = <<>>

\* C17: in a scan without max_sma10_distance no candidate of the pool gets
\* an SMA10 distance.
C17_TrendStageOnlyWhenConfigured ==
    (Ran /\ ~Enabled) =>
        \A i \in DOMAIN frame.pool : frame.pool[i].SMA10_Distance.isna

\* C14: for a selection of N positions, 1 <= N <= 50, each returned weight
\* is within 0.05 of 100 / N (one decimal place) and the returned weights sum
\* to 100 within the N roundings, that is within N * 0.05.
C14_WeightsSumTo100 ==
    frame.reached = "rounded" =>
        LET N == Len(frame.df)
            sum == SeqSum(Column(frame.df, "Weight"))
            diff == RatSub(sum, RatInt(100))
        IN  /\ N \in 1..50
            /\ \A i \in DOMAIN frame.df :
                LET w == frame.df[i].Weight
                IN  /\ (w.num * 10) % w.den = 0
                    /\ RatLeq(RatSub(w, Rat(100, N)), Rat(1, 20))
                    /\ RatLeq(RatSub(Rat(100, N), w), Rat(1, 20))
            /\ RatLeq(diff, Rat(N, 20))
            /\ RatLeq(RatSub(RatInt(0), diff), Rat(N, 20))

\* a sized selection of more than 40 positions whose rounded weights do not
\* sum to 100
C14_Witness ==
    /\ frame.reached = "rounded"
    /\ Len(frame.df) > 40
    /\ SeqSum(Column(frame.df, "Weight")) # RatInt(100)

\* C15: a call of the scan with num_positions outside 1..50 or
\* portfolio_size < 1000 ends with an unsuccessful result that carries a
\* validation error, before anything is computed: nothing is scored, no
\* candidate is looked up and no scan record is written.
C15_ValidationBeforeComputation ==
    (/\ result.state # "none"
     /\ \/ frame.num_positions \notin 1..50
        \/ RatLt(frame.portfolio_size, RatInt(1000)))
    => /\ result.state = "returned"
       /\ ~result.success
       /\ result.error \in {"Portfolio size must be at least $1,000",
                            "Number of positions must be between 1 and 50"}
       /\ ~Ran
       /\ scans = <<>>

---------------------------------------------------------------------------
(* Properties of the application *)

\* the requests whose background thread is running
Running == {i \in DOMAIN requests : requests[i].pc \in ThreadPcs}

\* C18: at most one background thread (refresh or scan) is running at any
\* time.
C18_OneBackgroundThread == Cardinality(Running) <= 1

\* C19: status is always one of idle, refreshing, scanning, completed,
\* error; the step that ends a background thread, whatever its outcome,
\* leaves status at completed or error; with no request in its handler and
\* no thread running status is not refreshing or scanning; and a status of
\* refreshing or scanning always leads to completed or error.
C19_BusyStatusEnds ==
    /\ [](app_state.status \in {"idle", "refreshing", "scanning", "completed", "error"})
    /\ [][\A i \in DOMAIN requests :
            (requests[i].pc \in ThreadPcs /\ requests'[i].pc = "done")
               => app_state'.status \in {"completed", "error"}]_vars
    /\ []((\A i \in DOMAIN requests : requests[i].pc \in {"rejected", "done"})
             => ~Busy)
    /\ (Busy ~> app_state.status \in {"completed", "error"})

\* a scan thread ended by an exception, with status error and nothing left
\* running
C19_Witness ==
    /\ app_state.status = "error"
    /\ Running = {}
    /\ \E i \in DOMAIN requests :
        /\ requests[i].pc = "done"
        /\ requests[i].route = "scan"
        /\ requests[i].ret.state = "raised"

\* C20: the step that refuses a request changes neither app_state (status,
\* progress, message, results, summary) nor the stocks and scans tables and
\* starts no thread; a refused request stays refused; a scan is refused
\* when the table is empty, when status is refreshing or scanning, when
\* portfolio_size < 1000 or when num_positions is outside 1..50, a refresh
\* when status is refreshing or scanning.
C20_RefusalChangesNothing ==
    [][\A i \in DOMAIN requests :
         /\ (requests[i].pc # "rejected" /\ requests'[i].pc = "rejected") =>
               /\ app_state' = app_state
               /\ stocks' = stocks
               /\ scans' = scans
               /\ Running' = Running
               /\ ~requests'[i].response.val.success
         /\ requests[i].pc = "rejected" => requests'[i] = requests[i]
         /\ (requests[i].pc = "count" /\ Len(stocks) = 0)
               => requests'[i].pc \in {"count", "rejected"}
         /\ (requests[i].pc = "check" /\ Busy)
               => requests'[i].pc \in {"check", "rejected"}
         /\ (/\ requests[i].pc = "check"
             /\ requests[i].route = "scan"
             /\ \/ RatLt(requests[i].body.portfolio_size, RatInt(1000))
                \/ requests[i].body.num_positions \notin 1..50)
               => requests'[i].pc \in {"check", "rejected"}]_vars

\* a request refused with 'Operation already in progress' while a thread
\* runs, next to app_state as that thread's handler left it
C20_Witness ==
    \E i, j \in DOMAIN requests :
        /\ requests[i].pc \in ThreadPcs
        /\ requests[j].pc = "rejected"
        /\ requests[j].response.val.error = "Operation already in progress"
        /\ Busy

\* the step in which the scan thread of request i makes its last
\* update_state
ScanFinishes(i) ==
    /\ requests[i].route = "scan"
    /\ requests[i].pc = "scan_finish"
    /\ requests'[i].pc = "done"

\* C21: /api/results serves the results and summary of the most recently
\* finished scan: the step that finishes a scan with success leaves its
\* results and summary served, the step that finishes a scan with status
\* error leaves 'No results available' served, and no other step changes
\* what is served.
C21_ResultsFreshness ==
    [][/\ \A i \in DOMAIN requests :
            ScanFinishes(i) =>
               LET ret == requests[i].ret
               IN  IF ret.state = "returned" /\ ret.success
                   THEN /\ app_state'.status = "completed"
                        /\ get_results'.success
                        /\ get_results'.results = ret.results
                        /\ get_results'.summary = ret.summary
                   ELSE /\ app_state'.status = "error"
                        /\ ~get_results'.success
                        /\ get_results'.error = "No results available"
       /\ (\A i \in DOMAIN requests : ~ScanFinishes(i))
             => get_results' = get_results]_vars

=============================================================================
